---- MODULE Spec2Model ----
(***************************************************************************)
(* Dual marching cubes engine (dualmc::DualMC): one engine instance, the   *)
(* caller's vertex and quad lists, and the build operation with its two    *)
(* sweeps (shared vertices, quad soup).                                    *)
(*                                                                         *)
(* Vertex coordinates are exact rationals, stored as integers scaled by    *)
(* Scale.  The 32-bit float rounding of the quotient, of the product with  *)
(* 1/points and of the sums is not represented; two coordinates computed   *)
(* by the same operations on the same operands are equal in both.          *)
(***************************************************************************)
EXTENDS Integers, Sequences, FiniteSets, TLC

(* enum DMC_EDGE_CODE *)
EDGE0 == 1
EDGE1 == 2
EDGE2 == 4
EDGE3 == 8
EDGE4 == 16
EDGE5 == 32
EDGE6 == 64
EDGE7 == 128
EDGE8 == 256
EDGE9 == 512
EDGE10 == 1024
EDGE11 == 2048

(* Row cc+1 holds the up to four dual point codes of cell code cc. *)
dualPointsList ==
  << <<0, 0, 0, 0>>,
     <<265, 0, 0, 0>>,
     <<515, 0, 0, 0>>,
     <<778, 0, 0, 0>>,
     <<400, 0, 0, 0>>,
     <<153, 0, 0, 0>>,
     <<515, 400, 0, 0>>,
     <<666, 0, 0, 0>>,
     <<560, 0, 0, 0>>,
     <<265, 560, 0, 0>>,
     <<51, 0, 0, 0>>,
     <<314, 0, 0, 0>>,
     <<928, 0, 0, 0>>,
     <<681, 0, 0, 0>>,
     <<419, 0, 0, 0>>,
     <<170, 0, 0, 0>>,
     <<2060, 0, 0, 0>>,
     <<2309, 0, 0, 0>>,
     <<515, 2060, 0, 0>>,
     <<2822, 0, 0, 0>>,
     <<400, 2060, 0, 0>>,
     <<2197, 0, 0, 0>>,
     <<515, 400, 2060, 0>>,
     <<2710, 0, 0, 0>>,
     <<560, 2060, 0, 0>>,
     <<2309, 560, 0, 0>>,
     <<51, 2060, 0, 0>>,
     <<2358, 0, 0, 0>>,
     <<928, 2060, 0, 0>>,
     <<2725, 0, 0, 0>>,
     <<419, 2060, 0, 0>>,
     <<2214, 0, 0, 0>>,
     <<1030, 0, 0, 0>>,
     <<265, 1030, 0, 0>>,
     <<1541, 0, 0, 0>>,
     <<1804, 0, 0, 0>>,
     <<400, 1030, 0, 0>>,
     <<153, 1030, 0, 0>>,
     <<1541, 400, 0, 0>>,
     <<1692, 0, 0, 0>>,
     <<560, 1030, 0, 0>>,
     <<265, 560, 1030, 0>>,
     <<1077, 0, 0, 0>>,
     <<1340, 0, 0, 0>>,
     <<928, 1030, 0, 0>>,
     <<681, 1030, 0, 0>>,
     <<1445, 0, 0, 0>>,
     <<1196, 0, 0, 0>>,
     <<3082, 0, 0, 0>>,
     <<3331, 0, 0, 0>>,
     <<3593, 0, 0, 0>>,
     <<3840, 0, 0, 0>>,
     <<400, 3082, 0, 0>>,
     <<3219, 0, 0, 0>>,
     <<3593, 400, 0, 0>>,
     <<3728, 0, 0, 0>>,
     <<560, 3082, 0, 0>>,
     <<3331, 560, 0, 0>>,
     <<3129, 0, 0, 0>>,
     <<3376, 0, 0, 0>>,
     <<928, 3082, 0, 0>>,
     <<3747, 0, 0, 0>>,
     <<3497, 0, 0, 0>>,
     <<3232, 0, 0, 0>>,
     <<2240, 0, 0, 0>>,
     <<265, 2240, 0, 0>>,
     <<515, 2240, 0, 0>>,
     <<778, 2240, 0, 0>>,
     <<2384, 0, 0, 0>>,
     <<2137, 0, 0, 0>>,
     <<515, 2384, 0, 0>>,
     <<2650, 0, 0, 0>>,
     <<560, 2240, 0, 0>>,
     <<265, 560, 2240, 0>>,
     <<51, 2240, 0, 0>>,
     <<314, 2240, 0, 0>>,
     <<2912, 0, 0, 0>>,
     <<2665, 0, 0, 0>>,
     <<2403, 0, 0, 0>>,
     <<2154, 0, 0, 0>>,
     <<204, 0, 0, 0>>,
     <<453, 0, 0, 0>>,
     <<515, 204, 0, 0>>,
     <<966, 0, 0, 0>>,
     <<348, 0, 0, 0>>,
     <<85, 0, 0, 0>>,
     <<515, 348, 0, 0>>,
     <<598, 0, 0, 0>>,
     <<560, 204, 0, 0>>,
     <<453, 560, 0, 0>>,
     <<51, 204, 0, 0>>,
     <<502, 0, 0, 0>>,
     <<876, 0, 0, 0>>,
     <<613, 0, 0, 0>>,
     <<367, 0, 0, 0>>,
     <<102, 0, 0, 0>>,
     <<1030, 2240, 0, 0>>,
     <<265, 1030, 2240, 0>>,
     <<1541, 2240, 0, 0>>,
     <<1804, 2240, 0, 0>>,
     <<2384, 1030, 0, 0>>,
     <<2137, 1030, 0, 0>>,
     <<1541, 2384, 0, 0>>,
     <<3676, 0, 0, 0>>,
     <<560, 1030, 2240, 0>>,
     <<265, 560, 1030, 2240>>,
     <<1077, 2240, 0, 0>>,
     <<1340, 2240, 0, 0>>,
     <<2912, 1030, 0, 0>>,
     <<2665, 1030, 0, 0>>,
     <<3429, 0, 0, 0>>,
     <<3180, 0, 0, 0>>,
     <<1226, 0, 0, 0>>,
     <<1475, 0, 0, 0>>,
     <<1737, 0, 0, 0>>,
     <<1984, 0, 0, 0>>,
     <<1370, 0, 0, 0>>,
     <<1107, 0, 0, 0>>,
     <<1881, 0, 0, 0>>,
     <<1616, 0, 0, 0>>,
     <<560, 1226, 0, 0>>,
     <<1475, 560, 0, 0>>,
     <<1273, 0, 0, 0>>,
     <<1520, 0, 0, 0>>,
     <<1898, 0, 0, 0>>,
     <<1635, 0, 0, 0>>,
     <<265, 1120, 0, 0>>,
     <<1120, 0, 0, 0>>,
     <<1120, 0, 0, 0>>,
     <<265, 1120, 0, 0>>,
     <<515, 1120, 0, 0>>,
     <<778, 1120, 0, 0>>,
     <<400, 1120, 0, 0>>,
     <<153, 1120, 0, 0>>,
     <<515, 400, 1120, 0>>,
     <<666, 1120, 0, 0>>,
     <<1616, 0, 0, 0>>,
     <<265, 1616, 0, 0>>,
     <<1107, 0, 0, 0>>,
     <<1370, 0, 0, 0>>,
     <<1984, 0, 0, 0>>,
     <<1737, 0, 0, 0>>,
     <<1475, 0, 0, 0>>,
     <<1226, 0, 0, 0>>,
     <<2060, 1120, 0, 0>>,
     <<2309, 1120, 0, 0>>,
     <<515, 2060, 1120, 0>>,
     <<2822, 1120, 0, 0>>,
     <<400, 2060, 1120, 0>>,
     <<2197, 1120, 0, 0>>,
     <<515, 400, 2060, 1120>>,
     <<2710, 1120, 0, 0>>,
     <<1616, 2060, 0, 0>>,
     <<2309, 1616, 0, 0>>,
     <<1107, 2060, 0, 0>>,
     <<3414, 0, 0, 0>>,
     <<1984, 2060, 0, 0>>,
     <<3781, 0, 0, 0>>,
     <<1475, 2060, 0, 0>>,
     <<3270, 0, 0, 0>>,
     <<102, 0, 0, 0>>,
     <<265, 102, 0, 0>>,
     <<613, 0, 0, 0>>,
     <<876, 0, 0, 0>>,
     <<400, 102, 0, 0>>,
     <<153, 102, 0, 0>>,
     <<613, 400, 0, 0>>,
     <<764, 0, 0, 0>>,
     <<598, 0, 0, 0>>,
     <<265, 598, 0, 0>>,
     <<85, 0, 0, 0>>,
     <<348, 0, 0, 0>>,
     <<966, 0, 0, 0>>,
     <<719, 0, 0, 0>>,
     <<453, 0, 0, 0>>,
     <<204, 0, 0, 0>>,
     <<2154, 0, 0, 0>>,
     <<2403, 0, 0, 0>>,
     <<2665, 0, 0, 0>>,
     <<2912, 0, 0, 0>>,
     <<400, 2154, 0, 0>>,
     <<2291, 0, 0, 0>>,
     <<2665, 400, 0, 0>>,
     <<2800, 0, 0, 0>>,
     <<2650, 0, 0, 0>>,
     <<2899, 0, 0, 0>>,
     <<2137, 0, 0, 0>>,
     <<2384, 0, 0, 0>>,
     <<3018, 0, 0, 0>>,
     <<515, 2240, 0, 0>>,
     <<2505, 0, 0, 0>>,
     <<2240, 0, 0, 0>>,
     <<3232, 0, 0, 0>>,
     <<265, 3232, 0, 0>>,
     <<515, 3232, 0, 0>>,
     <<778, 3232, 0, 0>>,
     <<3376, 0, 0, 0>>,
     <<3129, 0, 0, 0>>,
     <<515, 3376, 0, 0>>,
     <<3642, 0, 0, 0>>,
     <<3728, 0, 0, 0>>,
     <<265, 3728, 0, 0>>,
     <<3219, 0, 0, 0>>,
     <<3482, 0, 0, 0>>,
     <<3840, 0, 0, 0>>,
     <<3593, 0, 0, 0>>,
     <<3331, 0, 0, 0>>,
     <<3082, 0, 0, 0>>,
     <<1196, 0, 0, 0>>,
     <<1445, 0, 0, 0>>,
     <<515, 1196, 0, 0>>,
     <<1958, 0, 0, 0>>,
     <<1340, 0, 0, 0>>,
     <<1077, 0, 0, 0>>,
     <<515, 1340, 0, 0>>,
     <<1590, 0, 0, 0>>,
     <<1692, 0, 0, 0>>,
     <<1941, 0, 0, 0>>,
     <<1183, 0, 0, 0>>,
     <<400, 1030, 0, 0>>,
     <<1804, 0, 0, 0>>,
     <<1541, 0, 0, 0>>,
     <<1295, 0, 0, 0>>,
     <<1030, 0, 0, 0>>,
     <<2214, 0, 0, 0>>,
     <<265, 2214, 0, 0>>,
     <<2725, 0, 0, 0>>,
     <<2988, 0, 0, 0>>,
     <<2358, 0, 0, 0>>,
     <<2111, 0, 0, 0>>,
     <<2869, 0, 0, 0>>,
     <<560, 2060, 0, 0>>,
     <<2710, 0, 0, 0>>,
     <<265, 2710, 0, 0>>,
     <<2197, 0, 0, 0>>,
     <<2460, 0, 0, 0>>,
     <<2822, 0, 0, 0>>,
     <<2575, 0, 0, 0>>,
     <<2309, 0, 0, 0>>,
     <<2060, 0, 0, 0>>,
     <<170, 0, 0, 0>>,
     <<419, 0, 0, 0>>,
     <<681, 0, 0, 0>>,
     <<928, 0, 0, 0>>,
     <<314, 0, 0, 0>>,
     <<51, 0, 0, 0>>,
     <<825, 0, 0, 0>>,
     <<560, 0, 0, 0>>,
     <<666, 0, 0, 0>>,
     <<915, 0, 0, 0>>,
     <<153, 0, 0, 0>>,
     <<400, 0, 0, 0>>,
     <<778, 0, 0, 0>>,
     <<515, 0, 0, 0>>,
     <<265, 0, 0, 0>>,
     <<0, 0, 0, 0>> >>

problematicConfigs ==
  << 255, 255, 255, 255, 255, 255, 255, 255, 255, 255, 255, 255, 255, 255, 255, 255,
     255, 255, 255, 255, 255, 255, 255, 255, 255, 255, 255, 255, 255, 255, 255, 255,
     255, 255, 255, 255, 255, 255, 255, 255, 255, 255, 255, 255, 255, 255, 255, 255,
     255, 255, 255, 255, 255, 255, 255, 255, 255, 255, 255, 255, 255, 1, 0, 255,
     255, 255, 255, 255, 255, 255, 255, 255, 255, 255, 255, 255, 255, 255, 255, 255,
     255, 255, 255, 255, 255, 255, 255, 255, 255, 255, 255, 3, 255, 255, 2, 255,
     255, 255, 255, 255, 255, 255, 255, 5, 255, 255, 255, 255, 255, 255, 5, 5,
     255, 255, 255, 255, 255, 255, 4, 255, 255, 255, 3, 3, 1, 1, 255, 255,
     255, 255, 255, 255, 255, 255, 255, 255, 255, 255, 255, 255, 255, 255, 255, 255,
     255, 255, 255, 255, 255, 255, 255, 255, 255, 255, 255, 5, 255, 5, 255, 5,
     255, 255, 255, 255, 255, 255, 255, 3, 255, 255, 255, 255, 255, 2, 255, 255,
     255, 255, 255, 255, 255, 3, 255, 3, 255, 4, 255, 255, 0, 255, 0, 255,
     255, 255, 255, 255, 255, 255, 255, 1, 255, 255, 255, 0, 255, 255, 255, 255,
     255, 255, 255, 1, 255, 255, 255, 1, 255, 4, 2, 255, 255, 255, 2, 255,
     255, 255, 255, 0, 255, 2, 4, 255, 255, 255, 255, 0, 255, 2, 255, 255,
     255, 255, 255, 255, 255, 255, 4, 255, 255, 4, 255, 255, 255, 255, 255, 255 >>

(* Scale of the vertex coordinates: 510 (every difference of two sample    *)
(* values of the model divides it) times 420 (so does every number of      *)
(* accumulated points, 1..7).                                              *)
Scale == (2 * 3 * 5 * 17) * (3 * 4 * 5 * 7)

(* Coordinate produced by a division by zero (infinity or NaN). *)
NonFinite == -2147483647

(* code & bit, for bit a power of two *)
HasBit(code, bit) == (code \div bit) % 2 = 1

EmptyMap == [k \in {} |-> 0]

(* A view is the engine's borrowed volume for one call: grid, dims, iso,   *)
(* manifold, and junk, the value an access outside the buffer yields.      *)
Index(dims, x, y, z) == x + dims[1] * (y + dims[2] * z)

Sample(V, x, y, z) ==
  LET i == Index(V.dims, x, y, z)
  IN  IF i >= 0 /\ i < Len(V.grid) THEN V.grid[i + 1] ELSE V.junk

GetCellCode(V, x, y, z) ==
    (IF Sample(V, x,     y,     z    ) >= V.iso THEN 1   ELSE 0)
  + (IF Sample(V, x + 1, y,     z    ) >= V.iso THEN 2   ELSE 0)
  + (IF Sample(V, x,     y + 1, z    ) >= V.iso THEN 4   ELSE 0)
  + (IF Sample(V, x + 1, y + 1, z    ) >= V.iso THEN 8   ELSE 0)
  + (IF Sample(V, x,     y,     z + 1) >= V.iso THEN 16  ELSE 0)
  + (IF Sample(V, x + 1, y,     z + 1) >= V.iso THEN 32  ELSE 0)
  + (IF Sample(V, x,     y + 1, z + 1) >= V.iso THEN 64  ELSE 0)
  + (IF Sample(V, x + 1, y + 1, z + 1) >= V.iso THEN 128 ELSE 0)

(* The coordinates GetCellCode reads for cell c. *)
CellCorners(c) ==
  { <<c[1],     c[2],     c[3]>>,     <<c[1] + 1, c[2],     c[3]>>,
    <<c[1],     c[2] + 1, c[3]>>,     <<c[1] + 1, c[2] + 1, c[3]>>,
    <<c[1],     c[2],     c[3] + 1>>, <<c[1] + 1, c[2],     c[3] + 1>>,
    <<c[1],     c[2] + 1, c[3] + 1>>, <<c[1] + 1, c[2] + 1, c[3] + 1>> }

(* The neighbor cell across the ambiguous face in the given direction. *)
NeighborCoords(c, direction) ==
  LET component == direction \div 2
      delta     == IF direction % 2 = 1 THEN 1 ELSE -1
  IN  [k \in 1..3 |-> IF k = component + 1 THEN c[k] + delta ELSE c[k]]

NeighborInVolume(V, c, direction) ==
  LET component == direction \div 2
      n         == NeighborCoords(c, direction)
  IN  n[component + 1] >= 0 /\ n[component + 1] < V.dims[component + 1] - 1

(* The table entry read as a signed byte. *)
Direction_Signed(cubeCode) ==
  IF problematicConfigs[cubeCode + 1] > 127
  THEN problematicConfigs[cubeCode + 1] - 256
  ELSE problematicConfigs[cubeCode + 1]

(* The table entry with the sign bit of the direction always set. *)
Direction_PositiveOnly(cubeCode) ==
  IF problematicConfigs[cubeCode + 1] = 255 THEN 255
  ELSE 2 * (problematicConfigs[cubeCode + 1] \div 2) + 1

(* problematicConfigs[uint8_t(cubeCode)]: 255, or the direction 0..5 of    *)
(* the ambiguous face of a C16 or C19 configuration.                       *)
Direction(cubeCode) == problematicConfigs[cubeCode + 1]

(* The cell n is a C16 or C19 configuration. *)
NeighborIsProblematic(V, n) == Direction(GetCellCode(V, n[1], n[2], n[3])) # 255

(* cubeCode of cell c, inverted when the cell across its ambiguous face in *)
(* the given direction is inside the volume and problematic as well.       *)
Inverted(V, c, cubeCode, direction) ==
  IF /\ V.manifold
     /\ direction # 255
     /\ NeighborInVolume(V, c, direction)
     /\ NeighborIsProblematic(V, NeighborCoords(c, direction))
  THEN 255 - cubeCode
  ELSE cubeCode

InvertIfPaired(V, c, cubeCode) == Inverted(V, c, cubeCode, Direction(cubeCode))

(* ManifoldCubeCode without the inversion of C16/C19 pairs. *)
ManifoldCubeCode_NoInversion(V, x, y, z) == GetCellCode(V, x, y, z)

(* The cube code used for the table lookup: inverted for a C16/C19 pair. *)
ManifoldCubeCode(V, x, y, z) ==
  InvertIfPaired(V, <<x, y, z>>, GetCellCode(V, x, y, z))

(* The row of the cell code that follows cubeCode. *)
DualPointsOf_NextCode(cubeCode) == dualPointsList[((cubeCode + 1) % 256) + 1]

(* The row of cubeCode with its slots in reverse order. *)
DualPointsOf_Reversed(cubeCode) ==
  [i \in 1..4 |-> dualPointsList[cubeCode + 1][5 - i]]

(* dualPointsList[cubeCode]: the four dual point code slots of a cell code *)
DualPointsOf(cubeCode) == dualPointsList[cubeCode + 1]

(* The first slot of the row, whatever edge is asked for. *)
FirstSlot_First(row, edge) == row[1]

(* The first slot of the row that holds the edge, or 0 *)
FirstSlot(row, edge) ==
  IF      HasBit(row[1], edge) THEN row[1]
  ELSE IF HasBit(row[2], edge) THEN row[2]
  ELSE IF HasBit(row[3], edge) THEN row[3]
  ELSE IF HasBit(row[4], edge) THEN row[4]
  ELSE 0

GetDualPointCode(V, x, y, z, edge) ==
  FirstSlot(DualPointsOf(ManifoldCubeCode(V, x, y, z)), edge)

(* The coordinates GetDualPointCode reads. *)
CellReads(V, c, direction) ==
  CellCorners(c) \cup
  IF V.manifold /\ direction # 255 /\ NeighborInVolume(V, c, direction)
  THEN CellCorners(NeighborCoords(c, direction))
  ELSE {}

DualPointCodeReads(V, x, y, z) ==
  CellReads(V, <<x, y, z>>, Direction(GetCellCode(V, x, y, z)))

(* Cell edge e (0..11) runs from corner a along axis; row e+1. *)
EdgeGeom ==
  << [bit |-> EDGE0,  a |-> <<0, 0, 0>>, axis |-> 1],
     [bit |-> EDGE1,  a |-> <<1, 0, 0>>, axis |-> 3],
     [bit |-> EDGE2,  a |-> <<0, 0, 1>>, axis |-> 1],
     [bit |-> EDGE3,  a |-> <<0, 0, 0>>, axis |-> 3],
     [bit |-> EDGE4,  a |-> <<0, 1, 0>>, axis |-> 1],
     [bit |-> EDGE5,  a |-> <<1, 1, 0>>, axis |-> 3],
     [bit |-> EDGE6,  a |-> <<0, 1, 1>>, axis |-> 1],
     [bit |-> EDGE7,  a |-> <<0, 1, 0>>, axis |-> 3],
     [bit |-> EDGE8,  a |-> <<0, 0, 0>>, axis |-> 2],
     [bit |-> EDGE9,  a |-> <<1, 0, 0>>, axis |-> 2],
     [bit |-> EDGE10, a |-> <<1, 0, 1>>, axis |-> 2],
     [bit |-> EDGE11, a |-> <<0, 0, 1>>, axis |-> 2] >>

(* Samples at the two ends of cell edge g of cell (x,y,z). *)
EdgeLow(V, x, y, z, g) == Sample(V, x + g.a[1], y + g.a[2], z + g.a[3])

(* The sample at the low end of the edge, read for its high end. *)
EdgeHigh_LowEnd(V, x, y, z, g) ==
  Sample(V, x + g.a[1], y + g.a[2], z + g.a[3])

EdgeHigh(V, x, y, z, g) ==
  Sample(V, x + g.a[1] + (IF g.axis = 1 THEN 1 ELSE 0),
            y + g.a[2] + (IF g.axis = 2 THEN 1 ELSE 0),
            z + g.a[3] + (IF g.axis = 3 THEN 1 ELSE 0))

(* The middle of the edge, whatever the samples. *)
Interpolate_Midpoint(iso, a, b) == Scale \div 2

(* The iso value over the higher sample instead of the offset along the    *)
(* edge.                                                                   *)
Interpolate_OverHigher(iso, a, b) ==
  (iso * Scale) \div (IF a > b THEN a ELSE b)

(* (iso - a) / (b - a), scaled; a # b *)
Interpolate(iso, a, b) ==
  IF b > a THEN ((iso - a) * Scale) \div (b - a)
           ELSE ((a - iso) * Scale) \div (a - b)

(* What edge g adds to coordinate c of p. *)
EdgeTerm(V, x, y, z, pointCode, g, c) ==
  IF ~HasBit(pointCode, g.bit) THEN 0
  ELSE IF g.axis = c
       THEN Interpolate(V.iso, EdgeLow(V, x, y, z, g), EdgeHigh(V, x, y, z, g))
       ELSE g.a[c] * Scale

(* The sum over the cell edges e..11 of what each adds to coordinate c. *)
RECURSIVE SumTerms(_, _, _, _, _, _, _)
SumTerms(V, x, y, z, pointCode, c, e) ==
  IF e > 11 THEN 0
  ELSE EdgeTerm(V, x, y, z, pointCode, EdgeGeom[e + 1], c)
         + SumTerms(V, x, y, z, pointCode, c, e + 1)

(* The number of cell edges in the point code. *)
PointCount(pointCode) ==
  Cardinality({e \in 0..11 : HasBit(pointCode, EdgeGeom[e + 1].bit)})

(* An interpolation along axis c divides by zero. *)
ZeroDenominator(V, x, y, z, pointCode, G, c) ==
  \E e \in 0..11 : /\ HasBit(pointCode, G[e + 1].bit)
                   /\ G[e + 1].axis = c
                   /\ EdgeLow(V, x, y, z, G[e + 1]) = EdgeHigh(V, x, y, z, G[e + 1])

(* The sum of the edge crossings, not their mean. *)
Coordinate_Unaveraged(V, x, y, z, pointCode, c, base, points) ==
  IF points = 0 \/ ZeroDenominator(V, x, y, z, pointCode, EdgeGeom, c)
  THEN NonFinite
  ELSE base * Scale + SumTerms(V, x, y, z, pointCode, c, 0)

(* Coordinate c of the dual point: base + sum / points. *)
Coordinate(V, x, y, z, pointCode, c, base, points) ==
  IF points = 0 \/ ZeroDenominator(V, x, y, z, pointCode, EdgeGeom, c)
  THEN NonFinite
  ELSE base * Scale + SumTerms(V, x, y, z, pointCode, c, 0) \div points

CalculateDualPoint(V, x, y, z, pointCode) ==
  [x |-> Coordinate(V, x, y, z, pointCode, 1, x, PointCount(pointCode)),
   y |-> Coordinate(V, x, y, z, pointCode, 2, y, PointCount(pointCode)),
   z |-> Coordinate(V, x, y, z, pointCode, 3, z, PointCount(pointCode))]

Quad(i0, i1, i2, i3) == [i0 |-> i0, i1 |-> i1, i2 |-> i2, i3 |-> i3]

(* FindOrEmplace taking the new id after the vertex is appended. *)
FindOrEmplace_IdAfterAppend(V, st, x, y, z, key) ==
  IF key \in DOMAIN st.pointToIndex
  THEN [st |-> st, index |-> st.pointToIndex[key]]
  ELSE [st |-> [st EXCEPT
                  !.vertices = Append(@, CalculateDualPoint(V, x, y, z, key[2])),
                  !.pointToIndex = @ @@ (key :> Len(st.vertices) + 1)],
        index |-> Len(st.vertices) + 1]

(* A sweep state st carries the lists being written and the vertex cache.  *)
(* The index cached for key, or that of the vertex appended and cached for *)
(* it; key is <<linearizedCellID, pointCode>>.                             *)
FindOrEmplace(V, st, x, y, z, key) ==
  IF key \in DOMAIN st.pointToIndex
  THEN [st |-> st, index |-> st.pointToIndex[key]]
  ELSE [st |-> [st EXCEPT
                  !.vertices = Append(@, CalculateDualPoint(V, x, y, z, key[2])),
                  !.pointToIndex = @ @@ (key :> Len(st.vertices))],
        index |-> Len(st.vertices)]

GetSharedDualPointIndex(V, st, x, y, z, edge) ==
  FindOrEmplace(V, st, x, y, z,
                <<Index(V.dims, x, y, z), GetDualPointCode(V, x, y, z, edge)>>)

(* The three edge tests of one sweep position: the two coordinates that    *)
(* must be positive, the far end of the grid edge, the four cells around   *)
(* it with the cell edge queried in each, and the crossing direction that  *)
(* gets the order i0,i1,i2,i3.                                             *)
XEdge == [positive |-> {2, 3}, far |-> <<1, 0, 0>>, forward |-> "entering",
          cells |-> << <<0, 0, 0, EDGE0>>, <<0, 0, -1, EDGE2>>,
                       <<0, -1, -1, EDGE6>>, <<0, -1, 0, EDGE4>> >>]

YEdge == [positive |-> {1, 3}, far |-> <<0, 1, 0>>, forward |-> "exiting",
          cells |-> << <<0, 0, 0, EDGE8>>, <<0, 0, -1, EDGE11>>,
                       <<-1, 0, -1, EDGE10>>, <<-1, 0, 0, EDGE9>> >>]

ZEdge == [positive |-> {1, 2}, far |-> <<0, 0, 1>>, forward |-> "exiting",
          cells |-> << <<0, 0, 0, EDGE3>>, <<-1, 0, 0, EDGE1>>,
                       <<-1, -1, 0, EDGE5>>, <<0, -1, 0, EDGE7>> >>]

(* EdgeGuard admitting coordinate 0. *)
EdgeGuard_FromZero(p, rule) == \A k \in rule.positive : p[k] >= 0

EdgeGuard(p, rule) == \A k \in rule.positive : p[k] > 0

FarEnd(p, rule) == <<p[1] + rule.far[1], p[2] + rule.far[2], p[3] + rule.far[3]>>

Entering(V, p, rule) ==
  LET f == FarEnd(p, rule)
  IN  Sample(V, p[1], p[2], p[3]) < V.iso /\ Sample(V, f[1], f[2], f[3]) >= V.iso

(* Exiting with a far end that may equal the iso value. *)
Exiting_Inclusive(V, p, rule) ==
  LET f == FarEnd(p, rule)
  IN  Sample(V, p[1], p[2], p[3]) >= V.iso /\ Sample(V, f[1], f[2], f[3]) <= V.iso

Exiting(V, p, rule) ==
  LET f == FarEnd(p, rule)
  IN  Sample(V, p[1], p[2], p[3]) >= V.iso /\ Sample(V, f[1], f[2], f[3]) < V.iso

(* SharedQuad with the order i0,i1,i2,i3 for both crossing directions. *)
SharedQuad_OneWinding(forward, i0, i1, i2, i3) == Quad(i0, i1, i2, i3)

(* The quad emplaced for a crossed edge, by winding. *)
SharedQuad(forward, i0, i1, i2, i3) ==
  IF forward THEN Quad(i0, i1, i2, i3) ELSE Quad(i0, i3, i2, i1)

(* SoupVertices with the order 0,1,2,3 for both crossing directions. *)
SoupVertices_OneWinding(forward, vertex0, vertex1, vertex2, vertex3) ==
  <<vertex0, vertex1, vertex2, vertex3>>

(* The four vertices emplaced for a crossed edge, by winding. *)
SoupVertices(forward, vertex0, vertex1, vertex2, vertex3) ==
  IF forward THEN <<vertex0, vertex1, vertex2, vertex3>>
             ELSE <<vertex0, vertex3, vertex2, vertex1>>

(* Cell k (1..4) around the grid edge at p, and the cell edge queried in it. *)
CellAt(p, rule, k) ==
  <<p[1] + rule.cells[k][1], p[2] + rule.cells[k][2], p[3] + rule.cells[k][3]>>

EdgeAt(rule, k) == rule.cells[k][4]

Crossed(V, p, rule) == Entering(V, p, rule) \/ Exiting(V, p, rule)

(* The crossing has the direction that gets the order i0,i1,i2,i3. *)
Forward(V, p, rule) ==
  IF rule.forward = "entering" THEN Entering(V, p, rule) ELSE Exiting(V, p, rule)

(* acc carries the sweep state and the indices i0.. obtained so far. *)
Push(acc, r) == [st |-> r.st, ids |-> Append(acc.ids, r.index)]

SharedIndex(V, acc, c, edge) ==
  Push(acc, GetSharedDualPointIndex(V, acc.st, c[1], c[2], c[3], edge))

EmplaceQuad(acc, forward) ==
  [acc.st EXCEPT !.quads = Append(@, SharedQuad(forward, acc.ids[1], acc.ids[2],
                                                  acc.ids[3], acc.ids[4]))]

(* One edge test of _buildSharedVerticesQuads at sweep position p. *)
SharedEdge(V, st, p, rule) ==
  IF EdgeGuard(p, rule) /\ Crossed(V, p, rule)
  THEN EmplaceQuad(
         SharedIndex(V,
           SharedIndex(V,
             SharedIndex(V,
               SharedIndex(V, [st |-> st, ids |-> << >>],
                           CellAt(p, rule, 1), EdgeAt(rule, 1)),
               CellAt(p, rule, 2), EdgeAt(rule, 2)),
             CellAt(p, rule, 3), EdgeAt(rule, 3)),
           CellAt(p, rule, 4), EdgeAt(rule, 4)),
         Forward(V, p, rule))
  ELSE st

(* The dual point of cell c for the given cell edge. *)
DualPoint(V, c, edge) ==
  CalculateDualPoint(V, c[1], c[2], c[3], GetDualPointCode(V, c[1], c[2], c[3], edge))

(* One edge test of _buildQuadSoup at sweep position p. *)
SoupEdge(V, st, p, rule) ==
  IF EdgeGuard(p, rule) /\ Crossed(V, p, rule)
  THEN [st EXCEPT !.vertices = @ \o
          SoupVertices(Forward(V, p, rule),
                       DualPoint(V, CellAt(p, rule, 1), EdgeAt(rule, 1)),
                       DualPoint(V, CellAt(p, rule, 2), EdgeAt(rule, 2)),
                       DualPoint(V, CellAt(p, rule, 3), EdgeAt(rule, 3)),
                       DualPoint(V, CellAt(p, rule, 4), EdgeAt(rule, 4)))]
  ELSE st

(* The coordinates whose sample one edge test at sweep position p reads:   *)
(* the two ends of the grid edge and, when it is crossed, what the dual    *)
(* point codes of the four cells around it read (the interpolation reads   *)
(* corners of the same cells).  The same in both sweeps.                   *)
EdgeReads(V, p, rule) ==
  IF ~EdgeGuard(p, rule) THEN {}
  ELSE {p, FarEnd(p, rule)} \cup
       IF Crossed(V, p, rule)
       THEN UNION { CellReads(V, c, Direction(GetCellCode(V, c[1], c[2], c[3]))) :
                      c \in {CellAt(p, rule, k) : k \in 1..4} }
       ELSE {}

(* SweepPositions with the x loop running to dims[0] instead of dims[0]-2. *)
SweepPositions_FullX(dims) ==
  LET reducedX == dims[1]
      reducedY == dims[2] - 2
      reducedZ == dims[3] - 2
  IN  IF reducedX <= 0 \/ reducedY <= 0 \/ reducedZ <= 0 THEN << >>
      ELSE [k \in 1..(reducedX * reducedY * reducedZ) |->
              << (k - 1) % reducedX,
                 ((k - 1) \div reducedX) % reducedY,
                 (k - 1) \div (reducedX * reducedY) >>]

(* SweepPositions with x as the outermost and z as the innermost loop. *)
SweepPositions_XOuter(dims) ==
  LET reducedX == dims[1] - 2
      reducedY == dims[2] - 2
      reducedZ == dims[3] - 2
  IN  IF reducedX <= 0 \/ reducedY <= 0 \/ reducedZ <= 0 THEN << >>
      ELSE [k \in 1..(reducedX * reducedY * reducedZ) |->
              << (k - 1) \div (reducedZ * reducedY),
                 ((k - 1) \div reducedZ) % reducedY,
                 (k - 1) % reducedZ >>]

(* The positions of the triple loop, in the order the loop visits them. *)
SweepPositions(dims) ==
  LET reducedX == dims[1] - 2
      reducedY == dims[2] - 2
      reducedZ == dims[3] - 2
  IN  IF reducedX <= 0 \/ reducedY <= 0 \/ reducedZ <= 0 THEN << >>
      ELSE [k \in 1..(reducedX * reducedY * reducedZ) |->
              << (k - 1) % reducedX,
                 ((k - 1) \div reducedX) % reducedY,
                 (k - 1) \div (reducedX * reducedY) >>]

RECURSIVE SharedSweep(_, _, _, _)
SharedSweep(V, st, positions, k) ==
  IF Len(st.vertices) >= 0 /\ k > Len(positions) THEN st
  ELSE SharedSweep(V,
         SharedEdge(V, SharedEdge(V, SharedEdge(V, st, positions[k], XEdge),
                                  positions[k], YEdge), positions[k], ZEdge),
         positions, k + 1)

RECURSIVE SoupSweep(_, _, _, _)
SoupSweep(V, st, positions, k) ==
  IF Len(st.vertices) >= 0 /\ k > Len(positions) THEN st
  ELSE SoupSweep(V,
         SoupEdge(V, SoupEdge(V, SoupEdge(V, st, positions[k], XEdge),
                              positions[k], YEdge), positions[k], ZEdge),
         positions, k + 1)

SweepReads(V) ==
  LET positions == SweepPositions(V.dims)
  IN  UNION { EdgeReads(V, positions[k], rule) :
                k \in 1..Len(positions), rule \in {XEdge, YEdge, ZEdge} }

(* ClearCache leaving the entries in place. *)
ClearCache_Keep(cache) == cache

(* pointToIndex.clear() *)
ClearCache(cache) == EmptyMap

BuildSharedVerticesQuads(V, st) ==
  SharedSweep(V, [st EXCEPT !.pointToIndex = ClearCache(@)], SweepPositions(V.dims), 1)

SoupQuads(numQuads) ==
  [i \in 1..numQuads |-> Quad((i - 1) * 4, (i - 1) * 4 + 1, (i - 1) * 4 + 2, (i - 1) * 4 + 3)]

(* The quads emplaced after the soup sweep, one per four vertices. *)
WithSoupQuads(swept) ==
  [swept EXCEPT !.quads = @ \o SoupQuads(Len(swept.vertices) \div 4)]

BuildQuadSoup(V, st) == WithSoupQuads(SoupSweep(V, st, SweepPositions(V.dims), 1))

(* ClearList leaving the elements in place. *)
ClearList_Keep(list) == list

(* vertices.clear(); quads.clear() *)
ClearList(list) == << >>

(* build, from the lists and the cache it finds, on view V *)
BuildOut(V, generateSoup, vs, qs, cache) ==
  LET st == [vertices |-> ClearList(vs), quads |-> ClearList(qs),
             pointToIndex |-> cache]
  IN  IF generateSoup THEN BuildQuadSoup(V, st)
                      ELSE BuildSharedVerticesQuads(V, st)

(***************************************************************************)
(* State.  volumeDimensions, volumeGrid, generateManifold and pointToIndex *)
(* are the engine's members; vertices and quads are the caller's lists;    *)
(* args is the argument list of the caller's build call (its last one, or  *)
(* the one it is about to make); reads is the set of coordinates whose     *)
(* sample the last build read; status is "constructed" until a build       *)
(* returns, then "returned"; entry records what the last build found when  *)
(* it was entered: whether the caller's lists held elements, and whether   *)
(* its arguments were those of the call before it.                         *)
(***************************************************************************)
VARIABLES volumeDimensions, volumeGrid, generateManifold, pointToIndex,
          vertices, quads, args, reads, status, entry

vars == <<volumeDimensions, volumeGrid, generateManifold, pointToIndex,
          vertices, quads, args, reads, status, entry>>

(* ---- inputs ---- *)

(* The two sample values of the bounded volumes. *)
Levels == <<0, 255>>
Low == Levels[1]
High == Levels[2]

(* At most this many samples of a bounded volume differ from its base. *)
MaxFlips == 2

MaxInt32 == 2147483647

CoordOf(dims, i) ==
  << i % dims[1], (i \div dims[1]) % dims[2], i \div (dims[1] * dims[2]) >>

(* The volume of the given dimensions that is High on highs, Low elsewhere *)
Volume(dims, highs) ==
  [i \in 1..(dims[1] * dims[2] * dims[3]) |->
     IF CoordOf(dims, i - 1) \in highs THEN High ELSE Low]

Call(data, dims, iso, manifold, soup) ==
  [data |-> data, x |-> dims[1], y |-> dims[2], z |-> dims[3],
   isoValue |-> iso, generateManifold |-> manifold, generateSoup |-> soup]

NoCall == Call(<< >>, <<0, 0, 0>>, 0, FALSE, FALSE)

Abs(n) == IF n < 0 THEN -n ELSE n

(* nx*ny*nz is representable as a signed 32-bit integer *)
Fits32(a) ==
  \/ a.x = 0 \/ a.y = 0 \/ a.z = 0
  \/ /\ Abs(a.x) <= MaxInt32 \div Abs(a.y)
     /\ Abs(a.x * a.y) <= MaxInt32 \div Abs(a.z)

(* the buffer holds exactly nx*ny*nz samples *)
LengthMatches(a) == Fits32(a) /\ Len(a.data) = a.x * a.y * a.z

(* the buffer holds at least the nx*ny*nz samples the indexing assumes *)
LongEnough(a) == Fits32(a) /\ Len(a.data) >= a.x * a.y * a.z

FewOf(S) == {f \in SUBSET S : Cardinality(f) <= MaxFlips}

Dims655 == <<6, 5, 5>>
Block655 == (1..3) \X (1..2) \X (1..2)

Dims444 == <<4, 4, 4>>
Inner444 == (1..2) \X (1..2) \X (1..2)

Dims333 == <<3, 3, 3>>

(* The corners 0, 3, 5 and 6 of cell c: High there gives cell code 105. *)
Alternating(c) ==
  { <<c[1], c[2], c[3]>>, <<c[1] + 1, c[2] + 1, c[3]>>,
    <<c[1] + 1, c[2], c[3] + 1>>, <<c[1], c[2] + 1, c[3] + 1>> }

(* The volume that holds hi on highs and lo elsewhere. *)
VolumeOf(dims, highs, lo, hi) ==
  [i \in 1..(dims[1] * dims[2] * dims[3]) |->
     IF CoordOf(dims, i - 1) \in highs THEN hi ELSE lo]

(* Two sample values away from both ends of the sample range. *)
MidLevels == <<40, 210>>

MidHighs444 == { {<<1, 1, 1>>}, {<<1, 1, 1>>, <<2, 2, 1>>},
                 {<<1, 1, 1>>, <<2, 1, 1>>, <<2, 2, 2>>} }

(* The 5x5x5 volume with the single high sample (2,2,2). *)
Dims555 == <<5, 5, 5>>
Center555 == { <<2, 2, 2>> }

(* The 6x6x6 volume that is low below z = 3 and high from there on. *)
Dims666 == <<6, 6, 6>>
HalfSpace666 == (0..5) \X (0..5) \X (3..5)

FixtureCalls ==
       { Call(VolumeOf(Dims444, h, MidLevels[1], MidLevels[2]), Dims444, 128, m, s) :
           h \in MidHighs444, m \in BOOLEAN, s \in BOOLEAN }
  \cup { Call(Volume(Dims555, Center555), Dims555, 128, m, s) :
           m \in BOOLEAN, s \in BOOLEAN }
  \cup { Call(Volume(Dims666, HalfSpace666), Dims666, 128, m, s) :
           m \in BOOLEAN, s \in BOOLEAN }

(* Calls of the bounded volumes: a 6x5x5 volume that is High on a 3x2x2    *)
(* block but for up to MaxFlips samples of it; a 4x4x4 volume that is Low  *)
(* but for up to MaxFlips inner samples; the 3x3x3 volumes with one        *)
(* alternating cell; the volumes of mid-range samples and the two fixed    *)
(* volumes.                                                                *)
VolumeCalls ==
       { Call(Volume(Dims655, Block655 \ f), Dims655, 128, m, s) :
           f \in FewOf(Block655), m \in BOOLEAN, s \in BOOLEAN }
  \cup { Call(Volume(Dims444, f), Dims444, iso, m, s) :
           f \in FewOf(Inner444), iso \in {128, 255},
           m \in BOOLEAN, s \in BOOLEAN }
  \cup { Call(Volume(Dims333, Alternating(c)), Dims333, 128, m, s) :
           c \in {0, 1} \X {0, 1} \X {0, 1}, m \in BOOLEAN, s \in BOOLEAN }
  \cup FixtureCalls

(* Calls an engine receives over its life: 4x4x4 volumes at three iso      *)
(* values, a buffer longer than nx*ny*nz, dimensions below 2 on one axis,  *)
(* and dimensions whose product exceeds 32 bits.                           *)
LifeVolumes ==
  { Volume(Dims444, h) : h \in { {}, {<<1, 1, 1>>}, {<<2, 2, 2>>},
                                 {<<1, 1, 1>>, <<2, 2, 1>>},
                                 {<<1, 1, 1>>, <<2, 1, 1>>} } }

DegenerateDims == { <<1, 4, 4>>, <<4, 0, 4>>, <<4, 4, -1>> }

OverflowDims == <<65536, 65536, 2>>

LifeCalls ==
       { Call(v, Dims444, 128, FALSE, s) : v \in LifeVolumes, s \in BOOLEAN }
  \cup { Call(Volume(Dims444, {<<1, 1, 1>>, <<2, 2, 1>>}), Dims444, 128, TRUE, s) :
           s \in BOOLEAN }
  \cup { Call(Volume(Dims444, {<<1, 1, 1>>}), Dims444, iso, FALSE, s) :
           iso \in {0, 255}, s \in BOOLEAN }
  \cup { Call(Volume(Dims444, {<<1, 1, 1>>}) \o <<High>>, Dims444, 128, FALSE, s) :
           s \in BOOLEAN }
  \cup { Call([i \in 1..(IF d[1] * d[2] * d[3] > 0 THEN d[1] * d[2] * d[3] ELSE 0)
                 |-> IF i % 2 = 0 THEN High ELSE Low], d, 128, m, s) :
           d \in DegenerateDims, m \in {TRUE}, s \in BOOLEAN }
  \cup { Call(<< >>, OverflowDims, 128, FALSE, s) : s \in BOOLEAN }

(* What a read outside the buffer may yield: anything, when one can occur. *)
JunkFor(a) == IF LongEnough(a) \/ SweepPositions(<<a.x, a.y, a.z>>) = << >>
              THEN {Low} ELSE {Low, High}

View(a, junk) ==
  [grid |-> a.data, dims |-> <<a.x, a.y, a.z>>, iso |-> a.isoValue,
   manifold |-> a.generateManifold, junk |-> junk]

(* build(data, x, y, z, isoValue, generateManifold, generateSoup, vertices, quads) *)
Build(a, junk) ==
  \E out \in {BuildOut(View(a, junk), a.generateSoup, vertices, quads, pointToIndex)} :
    /\ args' = a
    /\ volumeDimensions' = <<a.x, a.y, a.z>>
    /\ volumeGrid' = a.data
    /\ generateManifold' = a.generateManifold
    /\ vertices' = out.vertices
    /\ quads' = out.quads
    /\ pointToIndex' = out.pointToIndex
    /\ reads' = SweepReads(View(a, junk))
    /\ status' = "returned"
    /\ entry' = [listsUsed |-> vertices # << >> \/ quads # << >>,
                 sameArgs  |-> status = "returned" /\ a = args]

(* Contents the caller's lists may hold before its first call. *)
JunkVertex == [x |-> NonFinite, y |-> 0, z |-> Scale]
JunkQuad == Quad(7, 7, 7, 7)

Constructed ==
  /\ volumeDimensions = <<0, 0, 0>>
  /\ volumeGrid = << >>
  /\ generateManifold = FALSE
  /\ pointToIndex = EmptyMap
  /\ reads = {}
  /\ status = "constructed"
  /\ entry = [listsUsed |-> FALSE, sameArgs |-> FALSE]

(* An engine and the calls of its life. *)
Init ==
  /\ Constructed
  /\ vertices \in {<< >>, <<JunkVertex>>}
  /\ quads \in {<< >>, <<JunkQuad>>}
  /\ args = NoCall

Next == \E a \in LifeCalls : \E junk \in JunkFor(a) : Build(a, junk)

Spec == Init /\ [][Next]_vars

(* One build of each bounded volume on a new engine. *)
InitVolumes ==
  /\ Constructed
  /\ vertices = << >>
  /\ quads = << >>
  /\ args \in VolumeCalls

NextVolumes ==
  /\ status = "constructed"
  /\ \E junk \in JunkFor(args) : Build(args, junk)

SpecVolumes == InitVolumes /\ [][NextVolumes]_vars

(* One build with manifold mode on of each bounded volume on a new engine. *)
InitManifold ==
  /\ Constructed
  /\ vertices = << >>
  /\ quads = << >>
  /\ args \in { c \in VolumeCalls : c.generateManifold }

SpecManifold == InitManifold /\ [][NextVolumes]_vars

(***************************************************************************)
(* Properties                                                              *)
(***************************************************************************)
Returned == status = "returned"

ArgDims == <<args.x, args.y, args.z>>

Corners(q) == <<q.i0, q.i1, q.i2, q.i3>>

(* The positions a quad of index list qs refers to in vertex list vs. *)
Positions(vs, q) == <<vs[q.i0 + 1], vs[q.i1 + 1], vs[q.i2 + 1], vs[q.i3 + 1]>>

(* The directed edges of a quad list: quad k, from corner j to the next. *)
EdgeSlots(qs) == (1..Len(qs)) \X (1..4)
EdgeFrom(qs, e) == Corners(qs[e[1]])[e[2]]
EdgeTo(qs, e) == Corners(qs[e[1]])[(e[2] % 4) + 1]

SameDirection(qs, e, f) ==
  EdgeFrom(qs, e) = EdgeFrom(qs, f) /\ EdgeTo(qs, e) = EdgeTo(qs, f)

OppositeDirection(qs, e, f) ==
  EdgeFrom(qs, e) = EdgeTo(qs, f) /\ EdgeTo(qs, e) = EdgeFrom(qs, f)

(* Every edge is in exactly two quads, traversed once each way. *)
ClosedOriented(qs) ==
  \A e \in EdgeSlots(qs) :
    /\ {f \in EdgeSlots(qs) : SameDirection(qs, e, f)} = {e}
    /\ Cardinality({f \in EdgeSlots(qs) : OppositeDirection(qs, e, f)}) = 1

(* The edges shared by a number of quads other than two. *)
NonManifoldEdges(qs) ==
  { e \in EdgeSlots(qs) :
      Cardinality({f \in EdgeSlots(qs) :
                     SameDirection(qs, e, f) \/ OppositeDirection(qs, e, f)}) # 2 }

(* Every sample with a coordinate in the given layers is below iso; a     *)
(* layer is given by its distance from the upper end, or 0 for the lower.  *)
LowOn(a, layers) ==
  \A i \in 1..Len(a.data) :
    LET c == CoordOf(ArgDims, i - 1)
    IN  (\E k \in 1..3 : c[k] = 0 \/ (ArgDims[k] - c[k]) \in layers)
          => a.data[i] < a.isoValue

(* The cells of the sweep whose cube code the manifold rule inverts. *)
InvertedCells(a) ==
  LET V == View(a, Low)
  IN  { c \in (0..(a.x - 3)) \X (0..(a.y - 3)) \X (0..(a.z - 3)) :
          ManifoldCubeCode(V, c[1], c[2], c[3]) # GetCellCode(V, c[1], c[2], c[3]) }

(* C1: after any build call, every one of the four indices of every quad   *)
(* is at least 0 and less than the length of the vertex list.              *)
C1_QuadIndicesInRange ==
  Returned =>
    \A k \in 1..Len(quads) : \A j \in 1..4 :
      Corners(quads[k])[j] >= 0 /\ Corners(quads[k])[j] < Len(vertices)

(* a shared build whose quads reuse vertices *)
C1_Witness ==
  /\ Returned
  /\ ~args.generateSoup
  /\ Len(quads) > 0
  /\ Len(vertices) < 4 * Len(quads)

(* C2, as claimed: in manifold mode, when every sample on the volume       *)
(* boundary is below iso, every edge of every quad of the shared-mode mesh *)
(* is in exactly two quads, which traverse it in opposite directions.      *)
C2_ClosedWhenBoundaryLow ==
  (Returned /\ args.generateManifold /\ ~args.generateSoup /\ LowOn(args, {1}))
    => ClosedOriented(quads)

(* C2, amended: the same when every sample with a coordinate equal to 0,   *)
(* dims-2 or dims-1 is below iso.                                          *)
C2_ClosedWhenOuterLayersLow ==
  (Returned /\ args.generateManifold /\ ~args.generateSoup /\ LowOn(args, {1, 2}))
    => ClosedOriented(quads)

(* a manifold-mode mesh inside the swept range with an inverted cell *)
C2_Witness ==
  /\ Returned
  /\ args.generateManifold
  /\ ~args.generateSoup
  /\ LowOn(args, {1, 2})
  /\ Len(quads) > 0
  /\ InvertedCells(args) # {}

(* C3: for the same volume, dimensions, iso and manifold flag, the soup    *)
(* build has as many quads as the shared build and four vertices per quad, *)
(* and corner j of soup quad k is at the position of corner j of shared    *)
(* quad k.                                                                 *)
C3_SoupMatchesShared ==
  (Returned /\ args.generateSoup) =>
    LET shared == BuildSharedVerticesQuads(View(args, Low),
                    [vertices |-> << >>, quads |-> << >>, pointToIndex |-> EmptyMap])
    IN  /\ Len(quads) = Len(shared.quads)
        /\ Len(vertices) = 4 * Len(shared.quads)
        /\ \A k \in 1..Len(shared.quads) :
             Positions(vertices, quads[k]) = Positions(shared.vertices, shared.quads[k])

(* a soup build with quads of both windings *)
C3_Witness ==
  /\ Returned
  /\ args.generateSoup
  /\ Len(quads) >= 6

(* The product nx*ny*nz of a call whose product is representable. *)
SampleCount(a) == a.x * a.y * a.z

(* C4, as claimed: a build call with a volume length different from        *)
(* nx*ny*nz ends with an InvalidInput result and leaves both lists empty.  *)
C4_InvalidInputOnLengthMismatch ==
  (status # "constructed" /\ Fits32(args) /\ Len(args.data) # SampleCount(args))
    => (status = "InvalidInput" /\ vertices = << >> /\ quads = << >>)

(* C5, as claimed: a build call with dimensions whose product does not fit *)
(* in a signed 32-bit integer ends with an InvalidInput result.            *)
C5_InvalidInputOnOverflow ==
  (status # "constructed" /\ ~Fits32(args)) => status = "InvalidInput"

(* C6: if any of nx, ny, nz is less than 2, build returns with an empty    *)
(* vertex list and an empty quad list and reads no sample of the volume.   *)
C6_EmptyBelowTwo ==
  (Returned /\ (args.x < 2 \/ args.y < 2 \/ args.z < 2))
    => (vertices = << >> /\ quads = << >> /\ reads = {})

(* a build with nx = 1 on a non-empty buffer, entered with used lists *)
C6_Witness ==
  /\ Returned
  /\ args.x = 1
  /\ Len(args.data) > 0
  /\ entry.listsUsed

(* C7: the lists a build call leaves are those it leaves when it is        *)
(* entered with both lists empty, whatever they held at entry.             *)
C7_OutputIgnoresPriorContents ==
  [][ /\ vertices' = BuildOut(View(args', Low), args'.generateSoup,
                              << >>, << >>, pointToIndex).vertices
      /\ quads'    = BuildOut(View(args', Low), args'.generateSoup,
                              << >>, << >>, pointToIndex).quads ]_vars

(* a build entered with used lists that left a mesh *)
C7_Witness ==
  /\ Returned
  /\ entry.listsUsed
  /\ Len(quads) > 0
  /\ Len(vertices) > 0

(* C8: a build call with the arguments of the call before it leaves the    *)
(* same vertex list and the same quad list as that call.                   *)
C8_RepeatedCallSameOutput ==
  [][ (status = "returned" /\ args' = args)
        => (vertices' = vertices /\ quads' = quads) ]_vars

(* a shared build repeated on the same engine that left a mesh *)
C8_Witness ==
  /\ Returned
  /\ entry.sameArgs
  /\ ~args.generateSoup
  /\ Len(quads) > 0

(* A cell of the volume of call a has cell code 105. *)
HasCell105(a) ==
  \E c \in (0..(a.x - 2)) \X (0..(a.y - 2)) \X (0..(a.z - 2)) :
    GetCellCode(View(a, Low), c[1], c[2], c[3]) = 105

(* C9, as claimed: for a 3x3x3 volume with a cell of code 105 the mesh     *)
(* built without the manifold flag has an edge shared by a number of quads *)
(* other than two, and the mesh built with it has none.                    *)
C9_NonManifoldEdgeWithoutFlag ==
  (Returned /\ ArgDims = Dims333 /\ HasCell105(args) /\ ~args.generateSoup)
    => IF args.generateManifold THEN NonManifoldEdges(quads) = {}
                                ELSE NonManifoldEdges(quads) # {}

(* C9, amended: for a 3x3x3 volume with a cell of code 105 build leaves    *)
(* no vertex and no quad, with the manifold flag and without it, so        *)
(* neither mesh has an edge shared by a number of quads other than two.    *)
C9_Nothing333 ==
  (Returned /\ ArgDims = Dims333 /\ HasCell105(args))
    => (vertices = << >> /\ quads = << >> /\ NonManifoldEdges(quads) = {})

(* a build without the manifold flag of a 3x3x3 volume with a cell 105 *)
C9_Witness ==
  /\ Returned
  /\ ArgDims = Dims333
  /\ HasCell105(args)
  /\ ~args.generateManifold
  /\ ~args.generateSoup

(* The call on the negated volume: every sample s as 255-s, iso as 255-iso *)
Negated(a) ==
  [a EXCEPT !.data = [i \in 1..Len(a.data) |-> 255 - a.data[i]],
            !.isoValue = 255 - a.isoValue]

(* The mesh the call leaves on a new engine. *)
Mesh(a) ==
  BuildOut(View(a, Low), a.generateSoup, << >>, << >>, EmptyMap)

(* The quads of a mesh as 4-tuples of vertex positions. *)
QuadTuples(mesh) ==
  { Positions(mesh.vertices, mesh.quads[k]) : k \in 1..Len(mesh.quads) }

(* u is the cycle t traversed the other way round *)
ReversedWinding(t, u) ==
  u \in { <<t[1], t[4], t[3], t[2]>>, <<t[4], t[3], t[2], t[1]>>,
          <<t[3], t[2], t[1], t[4]>>, <<t[2], t[1], t[4], t[3]>> }

(* Each quad of one set is a quad of the other with reversed winding. *)
MirrorSets(A, B) ==
  /\ \A t \in A : \E u \in B : ReversedWinding(t, u)
  /\ \A u \in B : \E t \in A : ReversedWinding(u, t)

(* The dual point codes listed for cell code cc. *)
RowCodes(cc) == { dualPointsList[cc + 1][i] : i \in 1..4 } \ {0}

(* The dual points of cc are not those of its complement: the              *)
(* configurations with an ambiguous face.                                  *)
Ambiguous(cc) == RowCodes(cc) # RowCodes(255 - cc)

NoSampleAtIso(a) == \A i \in 1..Len(a.data) : a.data[i] # a.isoValue

NoAmbiguousCell(a) ==
  \A c \in (0..(a.x - 2)) \X (0..(a.y - 2)) \X (0..(a.z - 2)) :
    ~Ambiguous(GetCellCode(View(a, Low), c[1], c[2], c[3]))

(* C10, as claimed: the build of the negated volume at the negated iso     *)
(* leaves the same set of quads, as 4-tuples of vertex positions, each     *)
(* with reversed winding.                                                  *)
C10_NegationMirrors ==
  Returned =>
    MirrorSets(QuadTuples([vertices |-> vertices, quads |-> quads]),
               QuadTuples(Mesh(Negated(args))))

(* C10, amended: the same when no sample equals iso and no cell of the     *)
(* volume has a configuration with an ambiguous face.                      *)
C10_NegationMirrorsUnambiguous ==
  (Returned /\ NoSampleAtIso(args) /\ NoAmbiguousCell(args)) =>
    MirrorSets(QuadTuples([vertices |-> vertices, quads |-> quads]),
               QuadTuples(Mesh(Negated(args))))

(* a build of an unambiguous volume that left quads of both windings *)
C10_Witness ==
  /\ Returned
  /\ NoSampleAtIso(args)
  /\ NoAmbiguousCell(args)
  /\ ~args.generateSoup
  /\ Len(quads) >= 6

(* ---- shift of samples and iso value ---- *)

SampleSet(a) == { a.data[i] : i \in DOMAIN a.data }

(* The non-zero shifts that keep every sample and the iso value in 0..255. *)
Shifts(a) ==
  LET samples == SampleSet(a)
  IN  { k \in (-255..255) \ {0} :
          /\ a.isoValue + k \in 0..255
          /\ \A v \in samples : v + k \in 0..255 }

Shifted(a, k) ==
  [a EXCEPT !.data = [i \in DOMAIN a.data |-> a.data[i] + k],
            !.isoValue = a.isoValue + k]

(* C11: adding one constant to every sample and to the iso value, with no  *)
(* value leaving 0..255, leaves the vertices and the quads of the build    *)
(* unchanged.                                                              *)
C11_ShiftInvariant ==
  Returned /\ LengthMatches(args) =>
    \A k \in Shifts(args) :
      \E shifted \in {Mesh(Shifted(args, k))} :
        /\ shifted.vertices = vertices
        /\ shifted.quads = quads

C11_Witness ==
  /\ Returned
  /\ LengthMatches(args)
  /\ Cardinality(Shifts(args)) > 1
  /\ args.generateManifold
  /\ ~args.generateSoup
  /\ Len(quads) > 3

(* ---- the single high sample ---- *)

IsCenter555(a) ==
  /\ <<a.x, a.y, a.z>> = Dims555
  /\ a.data = Volume(Dims555, Center555)
  /\ a.isoValue = 128

(* Every coordinate of v lies in [lo/2, hi/2]. *)
InHalfUnits(v, lo, hi) ==
  \A c \in {v.x, v.y, v.z} : lo * Scale <= 2 * c /\ 2 * c <= hi * Scale

(* C12: the 5x5x5 volume whose only sample at or above iso 128 is          *)
(* (2,2,2) = 255 gives 6 quads; 8 vertices when shared and 24 as a soup;   *)
(* every edge of the shared mesh is in exactly two quads; every vertex     *)
(* coordinate lies in [1.5, 2.5].                                          *)
C12_SingleVoxelCube ==
  Returned /\ IsCenter555(args) =>
    /\ Len(quads) = 6
    /\ Len(vertices) = (IF args.generateSoup THEN 24 ELSE 8)
    /\ ~args.generateSoup => NonManifoldEdges(quads) = {}
    /\ \A i \in 1..Len(vertices) : InHalfUnits(vertices[i], 3, 5)

C12_Witness ==
  /\ Returned
  /\ IsCenter555(args)
  /\ ~args.generateSoup
  /\ Len(vertices) = 8

(* ---- the half-space ---- *)

IsHalfSpace666(a) ==
  /\ <<a.x, a.y, a.z>> = Dims666
  /\ a.data = Volume(Dims666, HalfSpace666)
  /\ a.isoValue = 128

(* Coordinate c is within 1e-6 of num/den. *)
Near(c, num, den) ==
  Abs(c * den - num * Scale) <= (den * Scale) \div 1000000

(* C13 as stated: on the 6x6x6 volume that is 0 for z < 3 and 255 from     *)
(* there on, at iso 128, every vertex has z within 1e-6 of 2.5.            *)
C13_HalfSpaceAtMidpoint ==
  Returned /\ IsHalfSpace666(args) =>
    \A i \in 1..Len(vertices) : Near(vertices[i].z, 5, 2)

(* C13: on that volume every vertex has z within 1e-6 of 2 + 128/255,      *)
(* the crossing of iso 128 between a sample 0 and a sample 255.            *)
C13_HalfSpaceAtCrossing ==
  Returned /\ IsHalfSpace666(args) =>
    \A i \in 1..Len(vertices) : Near(vertices[i].z, 2 * 255 + 128, 255)

C13_Witness ==
  /\ Returned
  /\ IsHalfSpace666(args)
  /\ args.generateSoup
  /\ Len(vertices) = 36

(* ---- volumes on one side of the iso value ---- *)

AllBelow(a) == \A v \in SampleSet(a) : v < a.isoValue

AllAtLeast(a) == \A v \in SampleSet(a) : v >= a.isoValue

(* C14: a build of a volume whose samples are all below the iso value, or  *)
(* all at or above it (as with iso 0), returns no vertex and no quad,      *)
(* whatever the dimensions and the mode.                                   *)
C14_UniformVolumeEmpty ==
  Returned /\ LongEnough(args) /\ (AllBelow(args) \/ AllAtLeast(args)) =>
    vertices = << >> /\ quads = << >>

C14_Witness ==
  /\ Returned
  /\ LengthMatches(args)
  /\ args.isoValue = 0
  /\ Cardinality(SampleSet(args)) = 2
  /\ SweepPositions(ArgDims) # << >>
  /\ entry.listsUsed

(* ---- the lookups of a shared build ---- *)

(* The edge tests at sweep position p that emit a quad, in loop order. *)
TestsAt(V, p) ==
  LET Emits(t) == EdgeGuard(t.p, t.rule) /\ Crossed(V, t.p, t.rule)
  IN  SelectSeq(<< [p |-> p, rule |-> XEdge], [p |-> p, rule |-> YEdge],
                   [p |-> p, rule |-> ZEdge] >>, Emits)

RECURSIVE CrossedTests(_, _, _)
CrossedTests(V, positions, k) ==
  IF k > Len(positions) THEN << >>
  ELSE TestsAt(V, positions[k]) \o CrossedTests(V, positions, k + 1)

(* The edge tests of the build of the current arguments that emit a quad;  *)
(* the n-th of them emits the n-th quad.                                   *)
ArgTests == CrossedTests(View(args, Low), SweepPositions(ArgDims), 1)

(* Lookup <<n, j>> is the j-th of the four lookups of the n-th test. *)
Lookups(tests) == (1..Len(tests)) \X (1..4)

LookupCell(tests, l) == CellAt(tests[l[1]].p, tests[l[1]].rule, l[2])

LookupEdge(tests, l) == EdgeAt(tests[l[1]].rule, l[2])

LookupCode(V, tests, l) ==
  GetDualPointCode(V, LookupCell(tests, l)[1], LookupCell(tests, l)[2],
                   LookupCell(tests, l)[3], LookupEdge(tests, l))

LookupKey(V, tests, l) ==
  << Index(V.dims, LookupCell(tests, l)[1], LookupCell(tests, l)[2],
           LookupCell(tests, l)[3]),
     LookupCode(V, tests, l) >>

(* The index lookup l returned, read back from the quad it went into. *)
LookupIndex(V, tests, qs, l) ==
  IF Forward(V, tests[l[1]].p, tests[l[1]].rule)
  THEN Corners(qs[l[1]])[l[2]]
  ELSE Corners(qs[l[1]])[<<1, 4, 3, 2>>[l[2]]]

(* What the lookups of the given tests ask for and get: the cell, the cell *)
(* edge and the dual point code the resolver returns.                      *)
Resolved(V, tests) ==
  { [cell |-> LookupCell(tests, l), edge |-> LookupEdge(tests, l),
     code |-> LookupCode(V, tests, l)] : l \in Lookups(tests) }

(* C15: in a shared build, lookups of the same (linear cell id, point      *)
(* code) return the same index, and at the end of the build that index     *)
(* denotes the dual point of that cell and code.                           *)
C15_SameKeySameVertex ==
  Returned /\ ~args.generateSoup /\ LongEnough(args) =>
    \E V \in {View(args, Low)} : \E tests \in {ArgTests} :
      /\ Len(quads) = Len(tests)
      /\ \E found \in {{ [key   |-> LookupKey(V, tests, l),
                            index |-> LookupIndex(V, tests, quads, l),
                            cell  |-> LookupCell(tests, l)] : l \in Lookups(tests) }} :
           /\ Cardinality(found) = Cardinality({ r.key : r \in found })
           /\ \A r \in found :
                /\ r.index \in 0..(Len(vertices) - 1)
                /\ vertices[r.index + 1]
                     = CalculateDualPoint(V, r.cell[1], r.cell[2], r.cell[3], r.key[2])

C15_Witness ==
  /\ Returned
  /\ ~args.generateSoup
  /\ args.generateManifold
  /\ Len(quads) > 6
  /\ Len(vertices) < 2 * Len(quads)
  /\ Cardinality({ LookupKey(View(args, Low), ArgTests, l) : l \in Lookups(ArgTests) })
       = Len(vertices)

(* ---- the dual point table ---- *)

CellCodes == 0..255

HasDualPoint(cc) == \E i \in 1..4 : DualPointsOf(cc)[i] # 0

(* C16 as stated: in the table a build has used, every cell code other     *)
(* than 0 has a non-zero slot among the four of its row.                   *)
NonZeroCodesHaveDualPoint == \A cc \in CellCodes : cc # 0 => HasDualPoint(cc)

C16_NonZeroCodeHasDualPoint == Returned => NonZeroCodesHaveDualPoint

(* C16: in the table a build has used, every cell code other than 0 and    *)
(* 255 has a non-zero slot among the four of its row; the rows of 0 and of *)
(* 255 hold no dual point.                                                 *)
MixedCodesHaveDualPoint ==
  \A cc \in CellCodes : cc \notin {0, 255} <=> HasDualPoint(cc)

C16_MixedCodeHasDualPoint == Returned => MixedCodesHaveDualPoint

(* A build has looked up the row of a cell with corners on both sides. *)
C16_Witness ==
  /\ Returned
  /\ args.generateSoup
  /\ ~args.generateManifold
  /\ \E l \in Lookups(ArgTests) :
       \E c \in {LookupCell(ArgTests, l)} :
         \E cc \in {GetCellCode(View(args, Low), c[1], c[2], c[3])} :
           cc \notin {0, 255} /\ HasDualPoint(cc)

EdgeBits == { EDGE0, EDGE1, EDGE2, EDGE3, EDGE4, EDGE5,
              EDGE6, EDGE7, EDGE8, EDGE9, EDGE10, EDGE11 }

SharedBits(p, q) == { e \in EdgeBits : HasBit(p, e) /\ HasBit(q, e) }

(* C17: in the table a build has used, every slot is 0 or in 1..0xFFF,     *)
(* the non-zero slots of a row come before its zero slots, and two         *)
(* non-zero slots of one row have no edge bit in common.                   *)
RowsWellFormed ==
  \A cc \in CellCodes :
    \E row \in {DualPointsOf(cc)} :
      /\ \A i \in 1..4 : row[i] \in 0..4095
      /\ \A i \in 1..3 : row[i] = 0 => row[i + 1] = 0
      /\ \A i \in 1..4 : \A j \in (i + 1)..4 :
           row[i] # 0 /\ row[j] # 0 => SharedBits(row[i], row[j]) = {}

C17_RowsWellFormed == Returned => RowsWellFormed

(* A build has looked up a row that holds several dual points. *)
C17_Witness ==
  /\ Returned
  /\ ~args.generateSoup
  /\ \E l \in Lookups(ArgTests) :
       \E c \in {LookupCell(ArgTests, l)} :
         \E row \in {DualPointsOf(ManifoldCubeCode(View(args, Low), c[1], c[2], c[3]))} :
           row[2] # 0 /\ row[3] = 0

(* ---- the table of ambiguous faces ---- *)

(* C18: at every moment of an engine's life, every entry of                *)
(* problematicConfigs is one of 0, 1, 2, 3, 4, 5 and 255, so the axis      *)
(* (entry >> 1) of an entry other than 255 is 0, 1 or 2, an index of       *)
(* neighborCoords.                                                         *)
DirectionsInRange ==
  \A cc \in CellCodes :
    /\ Direction(cc) \in {0, 1, 2, 3, 4, 5, 255}
    /\ Direction(cc) # 255 =>
         (Direction(cc) \div 2) + 1 \in DOMAIN NeighborCoords(<<0, 0, 0>>, Direction(cc))

C18_DirectionsInRange ==
  status \in {"constructed", "returned"} => DirectionsInRange

(* A manifold build has looked up a cell with an ambiguous face whose      *)
(* neighbour across that face lies in the volume.                          *)
C18_Witness ==
  /\ Returned
  /\ args.generateManifold
  /\ args.generateSoup
  /\ \E l \in Lookups(ArgTests) :
       \E c \in {LookupCell(ArgTests, l)} :
         \E d \in {Direction(GetCellCode(View(args, Low), c[1], c[2], c[3]))} :
           d # 255 /\ NeighborInVolume(View(args, Low), c, d)

(* ---- the resolver ---- *)

(* The corner bit of the cell code for the corner at offset a of a cell. *)
CornerBit(a) == 2 ^ (a[1] + 2 * a[2] + 4 * a[3])

(* The offset of the far end of cell edge g. *)
FarCorner(g) == [k \in 1..3 |-> g.a[k] + (IF g.axis = k THEN 1 ELSE 0)]

(* Cell edge g has its two ends on opposite sides in a cell of code cc. *)
CrossedIn(cc, g) == HasBit(cc, CornerBit(g.a)) # HasBit(cc, CornerBit(FarCorner(g)))

EdgeIds == 1..12

(* For every cell code, every cell edge with ends on opposite sides is     *)
(* found in the row of the code and in the row of its complement.          *)
CrossedEdgesResolved ==
  \A cc \in CellCodes : \A e \in EdgeIds :
    CrossedIn(cc, EdgeGeom[e]) =>
      /\ HasBit(FirstSlot(DualPointsOf(cc), EdgeGeom[e].bit), EdgeGeom[e].bit)
      /\ HasBit(FirstSlot(DualPointsOf(255 - cc), EdgeGeom[e].bit), EdgeGeom[e].bit)

(* C19: every dual point code the resolver returns during a build holds    *)
(* the edge bit it was asked for, and so is not 0; the same holds for      *)
(* every cell code and every cell edge with ends on opposite sides,        *)
(* whether the row of the code or that of its complement is used.          *)
C19_ResolverFindsEdge ==
  Returned /\ LongEnough(args) =>
    /\ \A r \in Resolved(View(args, Low), ArgTests) : HasBit(r.code, r.edge)
    /\ CrossedEdgesResolved

(* A manifold build has resolved an edge of a cell whose code it inverted  *)
(* and of a cell whose row holds several dual points.                      *)
C19_Witness ==
  /\ Returned
  /\ args.generateManifold
  /\ ~args.generateSoup
  /\ \E l \in Lookups(ArgTests) :
       \E c \in {LookupCell(ArgTests, l)} :
         /\ ManifoldCubeCode(View(args, Low), c[1], c[2], c[3])
              # GetCellCode(View(args, Low), c[1], c[2], c[3])
         /\ LookupCode(View(args, Low), ArgTests, l) # 0
  /\ \E l \in Lookups(ArgTests) :
       \E c \in {LookupCell(ArgTests, l)} :
         DualPointsOf(ManifoldCubeCode(View(args, Low), c[1], c[2], c[3]))[2] # 0

(* ---- the dual point computation ---- *)

(* The samples a and b at the ends of a cell edge lie on opposite sides    *)
(* of iso, and the crossing (iso - a) / (b - a) lies in [0, 1].            *)
CrossingInEdge(iso, a, b) ==
  /\ (a < iso) # (b < iso)
  /\ b - a # 0
  /\ Interpolate(iso, a, b) >= 0
  /\ Interpolate(iso, a, b) <= Scale

(* Every edge bit of every slot of a cell code denotes a cell edge with    *)
(* ends on opposite sides in that code.                                    *)
SlotEdgesCrossed ==
  \A cc \in CellCodes : \A i \in 1..4 : \A e \in EdgeIds :
    HasBit(DualPointsOf(cc)[i], EdgeGeom[e].bit) => CrossedIn(cc, EdgeGeom[e])

(* C20: every dual point computed during a build has a point code with at  *)
(* least one edge bit, and every edge bit of it denotes a cell edge whose  *)
(* end samples lie on opposite sides of iso, so that the denominator is    *)
(* not 0 and the crossing lies in [0, 1]; in the table, every edge bit of  *)
(* every slot of a cell code denotes a cell edge with ends on opposite     *)
(* sides in that code.                                                     *)
C20_PointCodeEdgesCrossed ==
  Returned /\ LongEnough(args) =>
    /\ \E V \in {View(args, Low)} :
         \A r \in { [cell |-> q.cell, code |-> q.code] : q \in Resolved(V, ArgTests) } :
           /\ PointCount(r.code) >= 1
           /\ \A e \in EdgeIds :
                HasBit(r.code, EdgeGeom[e].bit) =>
                  CrossingInEdge(V.iso,
                                 EdgeLow(V, r.cell[1], r.cell[2], r.cell[3], EdgeGeom[e]),
                                 EdgeHigh(V, r.cell[1], r.cell[2], r.cell[3], EdgeGeom[e]))
    /\ SlotEdgesCrossed

(* A build with iso at the upper sample value has computed a dual point    *)
(* from four or more cell edges.                                           *)
C20_Witness ==
  /\ Returned
  /\ args.generateSoup
  /\ args.isoValue = High
  /\ \E l \in Lookups(ArgTests) :
       PointCount(LookupCode(View(args, Low), ArgTests, l)) >= 4

(* ---- the cache over the life of an engine ---- *)

(* The keys the build of the current arguments looks up. *)
ArgKeys ==
  IF args.generateSoup THEN {}
  ELSE { LookupKey(View(args, Low), ArgTests, l) : l \in Lookups(ArgTests) }

(* C21: when a build has returned, in either mode, the cache holds no      *)
(* entry of an earlier build: it was emptied before the sweep, so its keys *)
(* are keys the sweep of this build looked up.                             *)
C21_CacheClearedEveryBuild ==
  Returned => DOMAIN pointToIndex \subseteq ArgKeys

(* ---- the samples read ---- *)

InsideVolume(a, r) ==
  r[1] \in 0..(a.x - 1) /\ r[2] \in 0..(a.y - 1) /\ r[3] \in 0..(a.z - 1)

(* The low corner c is that of a cell of the volume. *)
CellOfVolume(a, c) ==
  c[1] \in 0..(a.x - 2) /\ c[2] \in 0..(a.y - 2) /\ c[3] \in 0..(a.z - 2)

(* C22: every sample a build reads, for the edge tests, the cell codes of  *)
(* the cells around an edge and of the manifold neighbour, and for the     *)
(* interpolation, has coordinates inside the volume; every cell queried    *)
(* has its low corner in [0, dims-2] on each axis.                         *)
C22_ReadsInsideVolume ==
  Returned =>
    /\ \A r \in reads : InsideVolume(args, r)
    /\ \A q \in Resolved(View(args, Low), ArgTests) : CellOfVolume(args, q.cell)

(* A manifold build has read a sample that is no corner of a cell it       *)
(* resolved: a corner of a manifold neighbour.                             *)
C22_Witness ==
  /\ Returned
  /\ args.generateManifold
  /\ \E r \in reads :
       \A q \in Resolved(View(args, Low), ArgTests) : r \notin CellCorners(q.cell)

(* ---- the manifold flip ---- *)

(* code XOR 0xFF, bit by bit *)
Xor255(code) ==
  LET Flip(i) == IF HasBit(code, 2 ^ i) THEN 0 ELSE 2 ^ i
  IN  Flip(0) + Flip(1) + Flip(2) + Flip(3) + Flip(4) + Flip(5) + Flip(6) + Flip(7)

CellsOfVolume(a) == (0..(a.x - 2)) \X (0..(a.y - 2)) \X (0..(a.z - 2))

(* The cell across the face of c that entry d of problematicConfigs names. *)
Across(c, d) ==
  [k \in 1..3 |-> IF k = (d \div 2) + 1
                  THEN c[k] + (IF d % 2 = 1 THEN 1 ELSE -1)
                  ELSE c[k]]

(* The stated condition of the flip of cell c of code cc. *)
FlipDue(V, c, cc) ==
  /\ V.manifold
  /\ problematicConfigs[cc + 1] # 255
  /\ \E n \in {Across(c, problematicConfigs[cc + 1])} :
       /\ \A k \in 1..3 : n[k] >= 0 /\ n[k] < V.dims[k] - 1
       /\ problematicConfigs[GetCellCode(V, n[1], n[2], n[3]) + 1] # 255

FacePattern(cc, k, s) ==
  { [c EXCEPT ![k] = 0] :
      c \in { c \in {0, 1} \X {0, 1} \X {0, 1} : c[k] = s /\ HasBit(cc, CornerBit(c)) } }

(* A cell of code b can lie across the face d of a cell of code a. *)
SharesFace(a, b, d) ==
  FacePattern(a, (d \div 2) + 1, d % 2) = FacePattern(b, (d \div 2) + 1, 1 - (d % 2))

(* The direction opposite to d: same axis, other sign. *)
Opposite(d) == IF d % 2 = 1 THEN d - 1 ELSE d + 1

(* For all cell codes: when the entry of a names a face and the code b of  *)
(* a cell across that face has an entry too, that entry names the same     *)
(* face from the other side.                                               *)
FlipMutual ==
  \A a \in CellCodes : \A b \in CellCodes :
    (Direction(a) # 255 /\ SharesFace(a, b, Direction(a)) /\ Direction(b) # 255)
      => Direction(b) = Opposite(Direction(a))

Flipped(V, c) == ManifoldCubeCode(V, c[1], c[2], c[3]) # GetCellCode(V, c[1], c[2], c[3])

(* C24: for any two face-adjacent cells A and B of the volume, when the    *)
(* entry of A's code points to B and B's code has an entry other than 255, *)
(* B's entry points back to A and A is flipped if and only if B is; the    *)
(* same for all pairs of cell codes that agree on a shared face.           *)
C24_FlipMutual ==
  Returned =>
    /\ FlipMutual
    /\ \E V \in {View(args, Low)} :
         \A A \in CellsOfVolume(args) :
           \E dA \in {Direction(GetCellCode(V, A[1], A[2], A[3]))} :
             dA # 255 =>
               \E B \in {Across(A, dA)} :
                 B \in CellsOfVolume(args) =>
                   \E dB \in {Direction(GetCellCode(V, B[1], B[2], B[3]))} :
                     dB # 255 =>
                       /\ Across(B, dB) = A
                       /\ Flipped(V, A) <=> Flipped(V, B)

(* A manifold build of a volume with two adjacent cells that name their    *)
(* shared face and are both flipped.                                       *)
C24_Witness ==
  /\ Returned
  /\ args.generateManifold
  /\ ~args.generateSoup
  /\ \E A \in CellsOfVolume(args) :
       \E dA \in {Direction(GetCellCode(View(args, Low), A[1], A[2], A[3]))} :
         /\ dA # 255
         /\ Across(A, dA) \in CellsOfVolume(args)
         /\ Flipped(View(args, Low), A)
         /\ Flipped(View(args, Low), Across(A, dA))

(* ---- the quads a sweep emits ---- *)

AxisRule == <<XEdge, YEdge, ZEdge>>

(* The grid edges of the sweep range of the given dimensions, as position  *)
(* and axis: z outermost, then y, then x, and at one position the X-edge   *)
(* before the Y-edge before the Z-edge.                                    *)
SweptEdges(dims) ==
  IF dims[1] <= 2 \/ dims[2] <= 2 \/ dims[3] <= 2 THEN << >>
  ELSE [k \in 1..(3 * (dims[1] - 2) * (dims[2] - 2) * (dims[3] - 2)) |->
          [axis |-> ((k - 1) % 3) + 1,
           p    |-> << ((k - 1) \div 3) % (dims[1] - 2),
                       ((k - 1) \div (3 * (dims[1] - 2))) % (dims[2] - 2),
                       (k - 1) \div (3 * (dims[1] - 2) * (dims[2] - 2)) >>]]

AtOrAbove(V, p) == Sample(V, p[1], p[2], p[3]) >= V.iso

(* The far end of the grid edge e. *)
EdgeEnd(e) == [k \in 1..3 |-> e.p[k] + (IF k = e.axis THEN 1 ELSE 0)]

(* The stated condition for edge e to emit a quad: the two coordinates     *)
(* other than its axis are positive and exactly one end is at or above iso *)
EmitsQuad(V, e) ==
  /\ \A k \in (1..3) \ {e.axis} : e.p[k] > 0
  /\ AtOrAbove(V, e.p) # AtOrAbove(V, EdgeEnd(e))

(* The stated corner order: i0,i1,i2,i3 for an entering X-edge and for an  *)
(* exiting Y- or Z-edge, i0,i3,i2,i1 otherwise.                            *)
StatedOrder(V, e, t) ==
  IF (e.axis = 1) = ~AtOrAbove(V, e.p) THEN t ELSE <<t[1], t[4], t[3], t[2]>>

ExpectedEdges(V) ==
  LET Emits(e) == EmitsQuad(V, e)
  IN  SelectSeq(SweptEdges(V.dims), Emits)

(* The cell and cell edge of lookup j of edge e. *)
AroundCell(e, j) == CellAt(e.p, AxisRule[e.axis], j)

AroundEdge(e, j) == EdgeAt(AxisRule[e.axis], j)

(* C25: the quads of a build are, one for one and in order, those of the   *)
(* grid edges of the sweep range whose guard holds and that have exactly   *)
(* one end at or above iso, each with its corners in the stated order:     *)
(* indices of the cached dual points in shared mode, positions of the      *)
(* dual points in soup mode.                                               *)
C25_QuadPerCrossedEdge ==
  Returned /\ LongEnough(args) =>
    \E V \in {View(args, Low)} : \E edges \in {ExpectedEdges(View(args, Low))} :
      /\ Len(quads) = Len(edges)
      /\ \A n \in 1..Len(edges) :
           IF args.generateSoup
           THEN /\ quads[n] = Quad(4 * (n - 1), 4 * (n - 1) + 1,
                                   4 * (n - 1) + 2, 4 * (n - 1) + 3)
                /\ Len(vertices) >= 4 * n
                /\ <<vertices[4 * n - 3], vertices[4 * n - 2],
                     vertices[4 * n - 1], vertices[4 * n]>>
                     = StatedOrder(V, edges[n],
                         [j \in 1..4 |-> DualPoint(V, AroundCell(edges[n], j),
                                                   AroundEdge(edges[n], j))])
           ELSE Corners(quads[n])
                  = StatedOrder(V, edges[n],
                      [j \in 1..4 |->
                         pointToIndex[LookupKey(V, <<[p |-> edges[n].p,
                                                      rule |-> AxisRule[edges[n].axis]]>>,
                                                <<1, j>>)]])

(* A build with quads of X-, Y- and Z-edges in both corner orders. *)
C25_Witness ==
  /\ Returned
  /\ LongEnough(args)
  /\ \A axis \in 1..3 : \A above \in BOOLEAN :
       \E n \in 1..Len(ExpectedEdges(View(args, Low))) :
         \E e \in {ExpectedEdges(View(args, Low))[n]} :
           e.axis = axis /\ AtOrAbove(View(args, Low), e.p) = above
  /\ Len(quads) >= 6

(* ---- the order of the output ---- *)

(* The place of the edge of test t in the order z, y, x, then X-, Y-,      *)
(* Z-edge.                                                                 *)
EdgeRank(dims, t) ==
  ((t.p[3] * dims[2] + t.p[2]) * dims[1] + t.p[1]) * 3
    + (IF t.rule = XEdge THEN 0 ELSE IF t.rule = YEdge THEN 1 ELSE 2)

(* The lookups made before lookup l: those of earlier quads and the        *)
(* earlier ones of its own quad, in the order i0, i1, i2, i3.              *)
Before(tests, l) ==
  { m \in Lookups(tests) : m[1] < l[1] \/ (m[1] = l[1] /\ m[2] < l[2]) }

(* C26: the quads are in the order of the sweep, by z, then y, then x of   *)
(* the low end of their grid edge and at one position X- before Y- before  *)
(* Z-edge; in shared mode each lookup, taken in the order i0, i1, i2, i3   *)
(* within a quad, returns an index returned before or the next unused      *)
(* index, counting from 0.                                                 *)
C26_SweepOrder ==
  Returned /\ LongEnough(args) =>
    \E V \in {View(args, Low)} : \E tests \in {ArgTests} :
      /\ Len(quads) = Len(tests)
      /\ \A n \in 1..(Len(tests) - 1) :
           EdgeRank(ArgDims, tests[n]) < EdgeRank(ArgDims, tests[n + 1])
      /\ \A n \in 1..Len(tests) :
           IF args.generateSoup
           THEN vertices[4 * n - 3]
                  = DualPoint(V, CellAt(tests[n].p, tests[n].rule, 1),
                              EdgeAt(tests[n].rule, 1))
           ELSE \A j \in 1..4 :
                  LookupIndex(V, tests, quads, <<n, j>>)
                    = pointToIndex[LookupKey(V, tests, <<n, j>>)]
      /\ ~args.generateSoup =>
           \A l \in Lookups(tests) :
             \E seen \in {{ LookupIndex(V, tests, quads, m) : m \in Before(tests, l) }} :
               \/ LookupIndex(V, tests, quads, l) \in seen
               \/ /\ LookupIndex(V, tests, quads, l) = Cardinality(seen)
                  /\ \A i \in seen : i < LookupIndex(V, tests, quads, l)

(* A shared build whose quads come from several layers and rows of the     *)
(* sweep and reuse vertices of earlier quads.                              *)
C26_Witness ==
  /\ Returned
  /\ ~args.generateSoup
  /\ Len(quads) >= 6
  /\ Len(vertices) < 4 * Len(quads)
  /\ \E n \in 1..Len(ArgTests) : \E m \in 1..Len(ArgTests) :
       /\ ArgTests[n].p[3] < ArgTests[m].p[3]
       /\ ArgTests[n].p[1] > ArgTests[m].p[1]

(* ---- the cells of the boundary layers ---- *)

(* The cells queried for a dual point by the build of args. *)
QueriedCells == { q.cell : q \in Resolved(View(args, Low), ArgTests) }

(* Cell c has a coordinate equal to one of the values vals(extent). *)
HasCoordinate(c, dims, vals(_)) == \E k \in 1..3 : c[k] \in vals(dims[k])

FirstOrLast(n) == {0, n - 1}

LastTwo(n) == {n - 2, n - 1}

(* C27 as stated: no cell with a low-corner coordinate 0 or dims-1 is      *)
(* queried for a dual point.                                               *)
C27_NoBoundaryCellQueried ==
  Returned /\ LongEnough(args) =>
    \E cells \in {QueriedCells} :
      \A c \in cells : ~HasCoordinate(c, ArgDims, FirstOrLast)

(* C27: no cell with a low-corner coordinate dims-2 or dims-1 is queried   *)
(* for a dual point, every queried cell has its low corner in              *)
(* [0, dims-3] on each axis, and the cells of a crossed edge that lie at   *)
(* coordinate 0 are queried like any other.                                *)
C27_LastLayersNeverQueried ==
  Returned /\ LongEnough(args) =>
    \E cells \in {QueriedCells} : \E tests \in {ArgTests} :
      /\ \A c \in cells :
           /\ ~HasCoordinate(c, ArgDims, LastTwo)
           /\ \A k \in 1..3 : c[k] \in 0..(ArgDims[k] - 3)
      /\ \A n \in 1..Len(tests) : \A j \in 1..4 :
           CellAt(tests[n].p, tests[n].rule, j) \in cells

(* A build that queries a cell at coordinate 0 and one at dims-3. *)
C27_Witness ==
  /\ Returned
  /\ LongEnough(args)
  /\ \E cells \in {QueriedCells} :
       /\ \E c \in cells : \E k \in 1..3 : c[k] = 0
       /\ \E c \in cells : \E k \in 1..3 : c[k] = ArgDims[k] - 3

(* ---- independence of the calls of one engine ---- *)

(* C28: after any sequence of earlier build calls on the engine, a build   *)
(* call leaves the vertex list and the quad list that a newly constructed  *)
(* engine leaves for the same arguments.                                   *)
C28_SameAsNewEngine ==
  Returned =>
    \E mesh \in {Mesh(args)} :
      /\ vertices = mesh.vertices
      /\ quads = mesh.quads

(* A shared build that left a mesh on an engine whose cache and lists      *)
(* held the results of an earlier call with other arguments.               *)
C28_Witness ==
  /\ Returned
  /\ entry.listsUsed
  /\ ~entry.sameArgs
  /\ ~args.generateSoup
  /\ Len(quads) > 1
  /\ Len(vertices) < 4 * Len(quads)

(* ---- the vertex cache during a shared build ---- *)

(* The i-th lookup of the build, counting through the quads. *)
NthLookup(i) == << ((i - 1) \div 4) + 1, ((i - 1) % 4) + 1 >>

(* The sweep states after each completed call of                           *)
(* _getSharedDualPointIndex: trace holds those up to lookup i, which is    *)
(* made next.                                                              *)
RECURSIVE LookupStates(_, _, _, _)
LookupStates(V, tests, trace, i) ==
  IF Len(trace[Len(trace)].vertices) >= 0 /\ i > 4 * Len(tests) THEN trace
  ELSE LookupStates(V, tests,
                    Append(trace,
                           GetSharedDualPointIndex(V, trace[Len(trace)],
                             LookupCell(tests, NthLookup(i))[1],
                             LookupCell(tests, NthLookup(i))[2],
                             LookupCell(tests, NthLookup(i))[3],
                             LookupEdge(tests, NthLookup(i))).st),
                    i + 1)

(* The states of the shared build of the current call between its lookups, *)
(* starting after pointToIndex.clear() with the lists build has cleared.   *)
ArgLookupStates ==
  LookupStates(View(args, Low), ArgTests,
               << [vertices |-> ClearList(vertices), quads |-> ClearList(quads),
                   pointToIndex |-> ClearCache(pointToIndex)] >>, 1)

(* cache maps exactly the given keys one-to-one onto 0..n-1. *)
BijectionOnto(cache, keys, n) ==
  /\ DOMAIN cache = keys
  /\ \A k1 \in keys : \A k2 \in keys : cache[k1] = cache[k2] => k1 = k2
  /\ { cache[k] : k \in keys } = 0..(n - 1)
  /\ Cardinality(keys) = n

(* C29: after every lookup of a shared build the cache maps the keys       *)
(* looked up so far one-to-one onto the indices 0..vertices.size()-1, its  *)
(* size is the length of the vertex list, and at the end of the build      *)
(* every vertex is a corner of some quad.                                  *)
C29_CacheBijection ==
  Returned /\ ~args.generateSoup /\ LongEnough(args) =>
    \E V \in {View(args, Low)} : \E tests \in {ArgTests} :
      \E trace \in {ArgLookupStates} :
        /\ Len(trace) = 4 * Len(tests) + 1
        /\ trace[Len(trace)].pointToIndex = pointToIndex
        /\ trace[Len(trace)].vertices = vertices
        /\ \A i \in 0..(4 * Len(tests)) :
             BijectionOnto(trace[i + 1].pointToIndex,
                           { LookupKey(V, tests, NthLookup(m)) : m \in 1..i },
                           Len(trace[i + 1].vertices))
        /\ \A v \in 0..(Len(vertices) - 1) :
             \E n \in 1..Len(quads) : \E j \in 1..4 : Corners(quads[n])[j] = v

(* A shared build with lookups that find their key in the cache and        *)
(* lookups that add a vertex.                                              *)
C29_Witness ==
  /\ Returned
  /\ ~args.generateSoup
  /\ LongEnough(args)
  /\ Len(vertices) >= 8
  /\ Len(vertices) < 4 * Len(quads)
  /\ Cardinality(DOMAIN pointToIndex) = Len(vertices)

(* ---- the samples of the last layers ---- *)

(* Coordinate r lies in the last layer of the volume of call a on some     *)
(* axis of the set axes.                                                   *)
InLastLayer(a, r, axes) == \E k \in axes : r[k] = <<a.x, a.y, a.z>>[k] - 1

(* Call a with every sample of the last layers on the given axes replaced  *)
(* through f.                                                              *)
WithLastLayers(a, axes, f(_)) ==
  [a EXCEPT !.data =
     [i \in 1..Len(a.data) |->
        IF i <= a.x * a.y * a.z /\ InLastLayer(a, CoordOf(<<a.x, a.y, a.z>>, i - 1), axes)
        THEN f(a.data[i]) ELSE a.data[i]]]

ToLow(s) == Low

ToHigh(s) == High

Complement(s) == 255 - s

(* Calls that differ from a only in samples of the last layers. *)
LastLayerVariants(a) ==
       { WithLastLayers(a, axes, ToLow) : axes \in (SUBSET (1..3)) \ {{}} }
  \cup { WithLastLayers(a, axes, ToHigh) : axes \in (SUBSET (1..3)) \ {{}} }
  \cup { WithLastLayers(a, 1..3, Complement) }

(* C30: with manifold mode off a build reads no sample that has a          *)
(* coordinate equal to dims-1 on some axis, and volumes that differ only   *)
(* in such samples give the same vertices and the same quads.              *)
C30_LastLayerIgnored ==
  Returned /\ ~args.generateManifold /\ LongEnough(args) =>
    /\ \A r \in reads : ~InLastLayer(args, r, 1..3)
    /\ \A b \in LastLayerVariants(args) :
         \E mesh \in {Mesh(b)} :
           /\ mesh.vertices = vertices
           /\ mesh.quads = quads

(* A build without manifold mode that reads samples next to the last       *)
(* layers and leaves a mesh, with variants of other samples and crossings  *)
(* in the last layers.                                                     *)
C30_Witness ==
  /\ Returned
  /\ ~args.generateManifold
  /\ LongEnough(args)
  /\ Len(quads) > 0
  /\ \E r \in reads : r[1] = args.x - 2
  /\ \E b \in LastLayerVariants(args) :
       \E i \in 1..Len(args.data) :
         (b.data[i] >= args.isoValue) # (args.data[i] >= args.isoValue)

====
